---- MODULE Spec2Model ----
(***************************************************************************)
(* Photo-derivative pipeline of via-cam.                                   *)
(*                                                                         *)
(*   src/lambda/lambda_function.py             the worker (lambda_handler) *)
(*   src/server_update/patch_api_update_meta.py  the callback receiver     *)
(*   src/app_full_v2.py                        the application's Photo ops *)
(*                                                                         *)
(* Strings the code computes on (storage keys, timestamps) are sequences   *)
(* of one-character strings.                                               *)
(***************************************************************************)
EXTENDS Integers, Sequences, FiniteSets, TLC

VARIABLES
    store,      \* derivatives bucket: key -> object body (put_object)
    photos,     \* photos table: id -> Photo row
    created,    \* history: id -> the row as it was inserted
    nextId,     \* number of Photo rows inserted so far (ids are fresh uuids)
    inv,        \* per invocation of lambda_handler: [pc, key, log, resps, result]
    recv,       \* history: the last call of api_update_meta
    CDN_DERIV,  \* configuration: CDN_DOMAIN_DERIVATIVES ("" when unset)
    call        \* one call of a function of the worker: [fn, arg, done, ret]

vars == <<store, photos, created, nextId, inv, recv, CDN_DERIV, call>>

\* Optional values are tuples (strings are tuples of characters, numbers are
\* rationals <<num, den>>), and None is a tuple no string or number equals.
None == <<"None">>

----------------------------------------------------------------------------
(* Bounds *)

NumInv == 2          \* invocations of lambda_handler (deliveries of events)
MaxPhotos == 2       \* Photo rows ever inserted
MaxRecords == 2      \* records in one storage event

Invs == 1..NumInv

----------------------------------------------------------------------------
(* Configuration (environment variables and their defaults) *)

\* the shared secret, on the worker's side and on the receiver's side
LAMBDA_WEBHOOK_SECRET == <<"CHANGE_ME">>
WEBHOOK_SECRET == <<"CHANGE_ME">>
AWS_REGION == "us-east-1"
DERIV_BUCKET == "pickcam-photos-deriv-dev"
S3_BUCKET == "pickcam-photos-original-dev"
CDN_DOMAIN == ""
MAX_WEB == 1600
MAX_THUMB == 400

----------------------------------------------------------------------------
(* Strings *)

Min(a, b) == IF a <= b THEN a ELSE b
Max(a, b) == IF a >= b THEN a ELSE b

\* s[:n] of Python
Prefix(s, n) == SubSeq(s, 1, Min(n, Len(s)))

\* str(x) inside an f-string: None prints as the four letters
FStr(x) == IF x = None THEN <<"N", "o", "n", "e">> ELSE x

\* Python truthiness of an optional string
Truthy(x) == x # None /\ x # <<>>

\* positions of '.' in s
DotsOf(s) == {i \in 1..Len(s) : s[i] = "."}
LastDot(s) == CHOOSE i \in DotsOf(s) : \A j \in DotsOf(s) : j <= i

\* s.rsplit('.', 1)[0]
RsplitDotHead(s) == IF DotsOf(s) = {} THEN s ELSE SubSeq(s, 1, LastDot(s) - 1)

WEB_SUFFIX == <<"_", "w", "e", "b", ".", "w", "e", "b", "p">>
THUMB_SUFFIX == <<"_", "t", "h", "u", "m", "b", ".", "w", "e", "b", "p">>

\* the keys upload_derivatives writes to
key_web_of(original_key) == RsplitDotHead(original_key) \o WEB_SUFFIX
key_thumb_of(original_key) == RsplitDotHead(original_key) \o THUMB_SUFFIX

\* a URL "https://{host}/{path}"; a host is a tuple of its dotted parts
Url(host, path) == [host |-> host, path |-> path]
BucketHost(bucket) == <<bucket, "s3", AWS_REGION, "amazonaws.com">>

\* d.get(tag) of a Python dict, modelled as a function on the tags it holds
Get(d, tag) == IF tag \in DOMAIN d THEN d[tag] ELSE None
GetOr(d, tag, dflt) == IF tag \in DOMAIN d THEN d[tag] ELSE dflt
EmptyDict == [t \in {} |-> None]

----------------------------------------------------------------------------
(* Images and their embedded metadata *)

\* piexif tag ids
DateTimeOriginal == 36867
DateTimeDigitized == 36868
DateTime == 306
GPSLatitudeRef == 1
GPSLatitude == 2
GPSLongitudeRef == 3
GPSLongitude == 4
Orientation == 274

\* The outcome of a call: the value it returned, or the exception it raised
Return(v) == [raised |-> FALSE, value |-> v]
Raise == [raised |-> TRUE, value |-> None]

\* rationals <<num, den>>, den > 0
RAdd(a, b) == <<a[1] * b[2] + b[1] * a[2], a[2] * b[2]>>
RDiv(a, n) == <<a[1], a[2] * n>>
RNeg(a) == <<0 - a[1], a[2]>>

\* A tag's value is bytes (a sequence of characters, INVALID_BYTE standing
\* for a byte that is not UTF-8) or, when the file stores the tag with
\* another type, a number: NOT_TEXT, which is truthy and has no .replace and
\* no .decode.
INVALID_BYTE == "#ff"
NOT_TEXT == <<"#int">>
IsText(c) == c # INVALID_BYTE

\* val.decode('utf-8', 'ignore')
Decode(val) == SelectSeq(val, IsText)

\* exif_dict of an image without a metadata block, or with a corrupt one: {}
EmptyExif == [ifd \in {} |-> EmptyDict]

\* piexif.load(exif_bytes)
piexif_load(exif_bytes) == IF exif_bytes.corrupt THEN Raise ELSE Return(exif_bytes.dict)

\* variant: the exception of piexif.load is not caught
_exif_to_dict_NoCatch(exif_bytes) == piexif_load(exif_bytes)

\* _exif_to_dict: piexif.load, {} when it raises
_exif_to_dict(exif_bytes) ==
    IF piexif_load(exif_bytes).raised THEN Return(EmptyExif) ELSE piexif_load(exif_bytes)

\* variant: the directory "0th" is searched before "Exif"
DateTimeLookups_ZerothFirst ==
    << <<"0th", DateTimeOriginal>>, <<"0th", DateTimeDigitized>>, <<"0th", DateTime>>,
       <<"Exif", DateTimeOriginal>>, <<"Exif", DateTimeDigitized>>, <<"Exif", DateTime>> >>

\* the tags _get_datetime looks up, in the order of its two loops
DateTimeLookups ==
    << <<"Exif", DateTimeOriginal>>, <<"Exif", DateTimeDigitized>>, <<"Exif", DateTime>>,
       <<"0th", DateTimeOriginal>>, <<"0th", DateTimeDigitized>>, <<"0th", DateTime>> >>

\* positions of character c in s, and s.replace(c, d, 2), s.replace(c, d)
PositionsOf(s, c) == {i \in 1..Len(s) : s[i] = c}
ReplaceFirst2(s, c, d) ==
    [i \in 1..Len(s) |->
        IF s[i] = c /\ Cardinality({j \in PositionsOf(s, c) : j < i}) < 2 THEN d ELSE s[i]]
ReplaceAll(s, c, d) == [i \in 1..Len(s) |-> IF s[i] = c THEN d ELSE s[i]]

\* variant: every ':' is replaced
ConvertDateTime_AllColons(val) == ReplaceAll(ReplaceAll(val, ":", "-"), " ", "T") \o <<"Z">>

\* val.replace(':', '-', 2).replace(' ', 'T') + 'Z'
ConvertDateTime(val) == ReplaceAll(ReplaceFirst2(val, ":", "-"), " ", "T") \o <<"Z">>

\* one pass of the try body: it returns the converted value, or falls through
\* (None) on an empty or absent value, or raises (exif_dict[ifd] of a missing
\* directory, .replace of a value that is not text)
DateTimeAt(exif_dict, n) ==
    LET ifd == DateTimeLookups[n][1]
        tag == DateTimeLookups[n][2]
    IN  IF ifd \notin DOMAIN exif_dict THEN Raise
        ELSE IF ~Truthy(Get(exif_dict[ifd], tag)) THEN Return(None)
        ELSE IF Get(exif_dict[ifd], tag) = NOT_TEXT THEN Raise
        ELSE Return(ConvertDateTime(Decode(Get(exif_dict[ifd], tag))))

\* the loops: "except Exception: pass" goes on with the next tag
RECURSIVE GetDatetimeFrom(_, _)
GetDatetimeFrom(exif_dict, n) ==
    IF n > Len(DateTimeLookups) THEN None
    ELSE IF ~DateTimeAt(exif_dict, n).raised /\ DateTimeAt(exif_dict, n).value # None
         THEN DateTimeAt(exif_dict, n).value
    ELSE GetDatetimeFrom(exif_dict, n + 1)

_get_datetime(exif_dict) == Return(GetDatetimeFrom(exif_dict, 1))

\* _dms_to_deg: raises on a short triple or a zero denominator
DmsOk(values) ==
    /\ Len(values) >= 3
    /\ \A i \in 1..3 : Len(values[i]) >= 2 /\ values[i][2] # 0
_dms_to_deg(values) ==
    IF ~DmsOk(values) THEN Raise
    ELSE Return(RAdd(RAdd(<<values[1][1], values[1][2]>>,
                          RDiv(<<values[2][1], values[2][2]>>, 60)),
                     RDiv(<<values[3][1], values[3][2]>>, 3600)))

\* gps_ifd.get(tag, default).decode() of a reference tag
RefOf(gps_ifd, tag, dflt) ==
    IF GetOr(gps_ifd, tag, dflt) = NOT_TEXT THEN Raise
    ELSE Return(Decode(GetOr(gps_ifd, tag, dflt)))

\* _dms_to_deg(gps_ifd[tag]) of a coordinate tag
CoordOf(gps_ifd, tag) ==
    IF tag \notin DOMAIN gps_ifd THEN Raise ELSE _dms_to_deg(gps_ifd[tag])

Signed(coord, ref, negative) == IF ref = negative THEN RNeg(coord) ELSE coord

\* variant: each coordinate is read under its own try
_gps_to_decimal_Separate(exif_dict) ==
    LET gps_ifd == GetOr(exif_dict, "GPS", EmptyDict)
        lat_ref == RefOf(gps_ifd, GPSLatitudeRef, <<"N">>)
        lng_ref == RefOf(gps_ifd, GPSLongitudeRef, <<"E">>)
        lat == CoordOf(gps_ifd, GPSLatitude)
        lng == CoordOf(gps_ifd, GPSLongitude)
    IN  IF DOMAIN gps_ifd = {} THEN Return(<<None, None>>)
        ELSE Return(<< IF lat_ref.raised \/ lat.raised THEN None
                       ELSE Signed(lat.value, lat_ref.value, <<"S">>),
                       IF lng_ref.raised \/ lng.raised THEN None
                       ELSE Signed(lng.value, lng_ref.value, <<"W">>) >>)

\* _gps_to_decimal: the whole body is one try, any exception gives None, None
_gps_to_decimal(exif_dict) ==
    LET gps_ifd == GetOr(exif_dict, "GPS", EmptyDict)
        lat_ref == RefOf(gps_ifd, GPSLatitudeRef, <<"N">>)
        lng_ref == RefOf(gps_ifd, GPSLongitudeRef, <<"E">>)
        lat == CoordOf(gps_ifd, GPSLatitude)
        lng == CoordOf(gps_ifd, GPSLongitude)
    IN  IF DOMAIN gps_ifd = {} THEN Return(<<None, None>>)
        ELSE IF lat_ref.raised \/ lng_ref.raised \/ lat.raised \/ lng.raised
             THEN Return(<<None, None>>)
        ELSE Return(<< Signed(lat.value, lat_ref.value, <<"S">>),
                       Signed(lng.value, lng_ref.value, <<"W">>) >>)

\* The sizes the model resizes: edges of images, and values of max_side
Dims == {1, 2, 183, 400, 401, 600, 610, 800, 1548, 1600, 1860, 2976, 3000, 4000, 5000}
Sides == {1, MAX_THUMB, MAX_WEB}

\* The triples <<edge, max_side, longer>> over Dims and Sides, longer > max_side
\* and edge <= longer, for which the double edge * (max_side / longer) is
\* below the integer edge * max_side / longer (the quotient max_side / longer
\* is rounded down and the product stays below the integer): int() of it is
\* one less than the exact quotient. For every other triple over Dims and
\* Sides int() of the double is the floor of the exact quotient.
ROUNDED_BELOW ==
    {<<183, 400, 610>>, <<610, 400, 610>>, <<1548, 400, 1548>>,
     <<1860, 400, 2976>>, <<1860, 1600, 2976>>}

\* int(edge * (max_side / longer))
ScaledEdge(edge, max_side, longer) ==
    IF <<edge, max_side, longer>> \in ROUNDED_BELOW
    THEN (edge * max_side) \div longer - 1
    ELSE (edge * max_side) \div longer

\* the size _ratio_resize asks img.resize for (img.copy() keeps the size)
NewSize(size, max_side) ==
    LET w == size[1]
        h == size[2]
    IN  IF Max(w, h) <= max_side THEN size
        ELSE IF w >= h THEN <<max_side, ScaledEdge(h, max_side, w)>>
        ELSE <<ScaledEdge(w, max_side, h), max_side>>

\* _ratio_resize on the size of the image; img.resize raises ValueError
\* ("height and width must be > 0") for a size with an edge below 1
_ratio_resize(size, max_side) ==
    IF NewSize(size, max_side)[1] < 1 \/ NewSize(size, max_side)[2] < 1 THEN Raise
    ELSE Return(NewSize(size, max_side))

\* an encoded derivative: im.convert('RGB').save(format='WEBP', quality=q, method=6)
Webp(pixels, size, quality) ==
    [format |-> "WEBP", mode |-> "RGB", quality |-> quality, method |-> 6,
     size |-> size, pixels |-> pixels]

\* process_image_bytes raised at a step
Error(stage) == [error |-> TRUE, stage |-> stage]

\* ImageOps.exif_transpose(im): the module imports Image and ExifTags from
\* PIL, not ImageOps, so evaluating the name raises NameError
exif_transpose(im) == Raise

\* the body of "with Image.open(...) as im": the dict it returns, or the step
\* that raised; "except Exception: pass" keeps im when exif_transpose raises
Opened(img_bytes) ==
    LET im == IF exif_transpose(img_bytes).raised THEN img_bytes
              ELSE exif_transpose(img_bytes).value
        exif_dict == IF img_bytes.has_exif THEN _exif_to_dict(img_bytes.exif)
                     ELSE Return(EmptyExif)
        taken_at == _get_datetime(exif_dict.value)
        gps == _gps_to_decimal(exif_dict.value)
        web == _ratio_resize(im.size, MAX_WEB)
        thumb == _ratio_resize(im.size, MAX_THUMB)
    IN  IF exif_dict.raised THEN Error("_exif_to_dict")
        ELSE IF taken_at.raised THEN Error("_get_datetime")
        ELSE IF gps.raised THEN Error("_gps_to_decimal")
        ELSE IF web.raised THEN Error("web")
        ELSE IF thumb.raised THEN Error("thumb")
        ELSE [error |-> FALSE,
              web_bytes |-> Webp(img_bytes.pixels, web.value, 88),
              thumb_bytes |-> Webp(img_bytes.pixels, thumb.value, 82),
              taken_at |-> taken_at.value,
              gps_lat |-> gps.value[1],
              gps_lng |-> gps.value[2],
              web_size |-> web.value,
              thumb_size |-> thumb.value]

\* variant: bytes that do not decode are processed as an empty 1 x 1 image
process_image_bytes_Placeholder(img_bytes) ==
    IF ~img_bytes.decodes THEN Opened([img_bytes EXCEPT !.size = <<1, 1>>])
    ELSE Opened(img_bytes)

\* process_image_bytes: Image.open raises on bytes it cannot decode
process_image_bytes(img_bytes) ==
    IF ~img_bytes.decodes THEN Error("open") ELSE Opened(img_bytes)

----------------------------------------------------------------------------
(* The originals bucket: immutable objects the upload path has stored *)

KEY_A == <<"p", "/", "a", ".", "j", "p", "g">>
KEY_B == <<"p", "/", "b", ".", "p", "n", "g">>
KEY_C == <<"p", "/", "c", ".", "j", "p", "g">>

TS_EMBEDDED ==
    <<"2", "0", "2", "4", ":", "0", "3", ":", "1", "5", " ",
      "1", "0", ":", "3", "0", ":", "0", "0">>

EXIF_FULL ==
    [corrupt |-> FALSE,
     dict |-> ("Exif" :> (DateTimeOriginal :> TS_EMBEDDED))
              @@ ("0th" :> EmptyDict)
              @@ ("GPS" :> ((GPSLatitudeRef :> <<"N">>)
                            @@ (GPSLatitude :> << <<40, 1>>, <<26, 1>>, <<463, 10>> >>)
                            @@ (GPSLongitudeRef :> <<"W">>)
                            @@ (GPSLongitude :> << <<79, 1>>, <<58, 1>>, <<56, 1>> >>)))]
EXIF_NONE == [corrupt |-> FALSE, dict |-> [ifd \in {} |-> EmptyDict]]

\* a photo with capture metadata, a screenshot without any, a corrupt upload
IMG_META == [decodes |-> TRUE, pixels |-> "A", size |-> <<4000, 3000>>,
             has_exif |-> TRUE, exif |-> EXIF_FULL]
IMG_PLAIN == [decodes |-> TRUE, pixels |-> "B", size |-> <<800, 600>>,
              has_exif |-> FALSE, exif |-> EXIF_NONE]
IMG_BAD == [decodes |-> FALSE, pixels |-> "C", size |-> <<0, 0>>,
            has_exif |-> FALSE, exif |-> EXIF_NONE]

OriginalBucket == (KEY_A :> IMG_META) @@ (KEY_B :> IMG_PLAIN) @@ (KEY_C :> IMG_BAD)
Keys == DOMAIN OriginalBucket

\* storage events: 1..MaxRecords records, each naming a key
Events == UNION {[1..n -> Keys] : n \in 1..MaxRecords}

----------------------------------------------------------------------------
(* The application's photos table (src/app_full_v2.py) *)

TODAY == <<"2", "0", "2", "5", "-", "0", "9", "-", "0", "1">>
REG_GPS == << <<351, 10>>, ",", <<-962, 10>> >>

\* f"{gps_lat},{gps_lng}"
GpsStr(lat, lng) == <<lat, ",", lng>>

\* src of a freshly registered photo (api_register)
OriginalUrl(s3_key) ==
    IF CDN_DOMAIN # "" THEN Url(<<CDN_DOMAIN>>, s3_key)
    ELSE Url(BucketHost(S3_BUCKET), s3_key)

\* web_url of api_update_meta
DerivativeUrl(s3_key_web) ==
    IF CDN_DERIV # "" THEN Url(<<CDN_DERIV, call>>, FStr(s3_key_web))
    ELSE Url(BucketHost(DERIV_BUCKET), FStr(s3_key_web))

IsLocalSrc(src) == src.host = <<"local">>

PhotosWithKey(db, s3_key) == {id \in DOMAIN db : db[id].s3_key = s3_key}

Insert(db, id, row) == [x \in DOMAIN db \cup {id} |-> IF x = id THEN row ELSE db[x]]
Remove(db, id) == [x \in DOMAIN db \ {id} |-> db[x]]

----------------------------------------------------------------------------
(* The callback receiver (src/server_update/patch_api_update_meta.py) *)

Response(status, text) == [status |-> status, text |-> text]

\* variant: src is pointed at the thumbnail
UpdateFields_Thumb(photo, data) ==
    [photo EXCEPT
        !.src = DerivativeUrl(data.s3_key_thumb),
        !.gps = IF data.gps_lat # None /\ data.gps_lng # None
                THEN GpsStr(data.gps_lat, data.gps_lng) ELSE @,
        !.date = IF Truthy(data.taken_at) THEN Prefix(data.taken_at, 10) ELSE @]

\* variant: the coordinates are appended to the stored gps text
UpdateFields_Append(photo, data) ==
    [photo EXCEPT
        !.src = DerivativeUrl(data.s3_key_web),
        !.gps = IF data.gps_lat # None /\ data.gps_lng # None
                THEN (IF @ = None THEN <<>> ELSE @) \o GpsStr(data.gps_lat, data.gps_lng)
                ELSE @,
        !.date = IF Truthy(data.taken_at) THEN Prefix(data.taken_at, 10) ELSE @]

\* the row after "Update fields"
UpdateFields(photo, data) ==
    [photo EXCEPT
        !.src = DerivativeUrl(data.s3_key_web),
        !.gps = IF data.gps_lat # None /\ data.gps_lng # None
                THEN GpsStr(data.gps_lat, data.gps_lng) ELSE @,
        !.date = IF Truthy(data.taken_at) THEN Prefix(data.taken_at, 10) ELSE @]

\* variant: only a header that is present is compared
Authorized_IfPresent(secret) == secret = None \/ secret = WEBHOOK_SECRET

\* "if secret != WEBHOOK_SECRET: return 401", secret None when the header is absent
Authorized(secret) == secret = WEBHOOK_SECRET

\* variant: the where clause is lost
Matching_Any(db, s3_key_original) == DOMAIN db

\* select(Photo).where(Photo.s3_key == s3_key_original)
Matching(db, s3_key_original) == PhotosWithKey(db, s3_key_original)

\* api_update_meta: the table after the call and the response.
\* scalar_one_or_none raises MultipleResultsFound when several rows match;
\* the unhandled exception is answered 500 and nothing is committed.
api_update_meta(db, secret, data) ==
    LET found == Matching(db, data.s3_key_original)
    IN  IF ~Authorized(secret)
        THEN [photos |-> db, resp |-> Response(401, "unauthorized")]
        ELSE IF ~Truthy(data.s3_key_original)
        THEN [photos |-> db, resp |-> Response(400, "missing s3_key_original")]
        ELSE IF found = {}
        THEN [photos |-> db, resp |-> Response(404, "photo not found")]
        ELSE IF Cardinality(found) > 1
        THEN [photos |-> db, resp |-> Response(500, "Internal Server Error")]
        ELSE LET id == CHOOSE x \in found : TRUE
             IN  [photos |-> [db EXCEPT ![id] = UpdateFields(db[id], data)],
                  resp |-> Response(200, "ok")]

NoPayload ==
    [s3_key_original |-> None, s3_key_web |-> None, s3_key_thumb |-> None,
     taken_at |-> None, gps_lat |-> None, gps_lng |-> None,
     width |-> 0, height |-> 0]

\* One call of the receiver: the table is updated and the call is recorded.
\* repeat: the call posts again, with the valid secret, the payload of the call
\* before it, and no other operation has touched the table in between.
ReceiverCall(secret, data) ==
    LET r == api_update_meta(photos, secret, data)
    IN  /\ photos' = r.photos
        /\ recv' = [secret |-> secret, payload |-> data,
                    status |-> r.resp.status,
                    repeat |-> /\ recv.fresh
                               /\ recv.secret = WEBHOOK_SECRET
                               /\ secret = WEBHOOK_SECRET
                               /\ recv.payload = data,
                    fresh |-> TRUE]

TableTouched == recv' = [recv EXCEPT !.fresh = FALSE]

----------------------------------------------------------------------------
(* Application operations on photos *)

\* POST /api/photos/register (the successful path: project and session exist;
\* the early returns 400/401/404 change nothing). The project's cover
\* (proj.thumb) is not part of the photos table.
api_register(s3_key, gps) ==
    /\ nextId < MaxPhotos
    /\ LET pid == nextId + 1
           ph == [s3_key |-> s3_key, src |-> OriginalUrl(s3_key), author |-> "user",
                  gps |-> gps, date |-> TODAY, labels |-> <<>>]
       IN  /\ photos' = Insert(photos, pid, ph)
           /\ created' = Insert(created, pid, ph)
           /\ nextId' = pid
    /\ TableTouched
    /\ UNCHANGED <<store, inv, CDN_DERIV, call>>

\* DELETE /api/photos/<photo_id>
api_delete_photo(photo_id) ==
    /\ photo_id \in DOMAIN photos
    /\ photos' = Remove(photos, photo_id)
    /\ TableTouched
    /\ UNCHANGED <<store, created, nextId, inv, CDN_DERIV, call>>

\* POST /api/photos/<photo_id>/duplicate; copied: the file of a photo under
\* /static/uploads/ was copied (no registered or switched photo has such a src)
api_duplicate_photo(photo_id, copied) ==
    /\ photo_id \in DOMAIN photos
    /\ nextId < MaxPhotos
    /\ LET original_photo == photos[photo_id]
           renamed == IsLocalSrc(original_photo.src) /\ copied
           new_src == IF renamed
                      THEN Url(<<"local">>, original_photo.src.path \o <<"_duplicate">>)
                      ELSE original_photo.src
           new_s3_key == IF renamed THEN new_src.path ELSE original_photo.s3_key
           pid == nextId + 1
           ph == [s3_key |-> new_s3_key, src |-> new_src, author |-> "session",
                  gps |-> original_photo.gps, date |-> TODAY,
                  labels |-> original_photo.labels \o <<"duplicate">>]
       IN  /\ photos' = Insert(photos, pid, ph)
           /\ created' = Insert(created, pid, ph)
           /\ nextId' = pid
    /\ TableTouched
    /\ UNCHANGED <<store, inv, CDN_DERIV, call>>

----------------------------------------------------------------------------
(* The worker: one invocation of lambda_handler (src/lambda/lambda_function.py) *)

Body(i) == OriginalBucket[inv[i].key]
\* process_image_bytes is a function of the bytes alone: its result for each
\* object of the bucket
Processed == [k \in DOMAIN OriginalBucket |-> process_image_bytes(OriginalBucket[k])]
Out(i) == Processed[inv[i].key]

\* the payload lambda_handler builds
Payload(key, out) ==
    [s3_key_original |-> key,
     s3_key_web |-> key_web_of(key),
     s3_key_thumb |-> key_thumb_of(key),
     taken_at |-> out.taken_at,
     gps_lat |-> out.gps_lat,
     gps_lng |-> out.gps_lng,
     width |-> out.web_size[1],
     height |-> out.web_size[2]]

\* what requests.post raises instead of returning a response
NetworkError == Response(0, "exception")

\* variant: the retry is made whatever the first response
NeedsRetry_Always(r) == TRUE

\* "if r.status_code >= 400": the first response asks for the retry
NeedsRetry(r) == r.status >= 400

\* variant: the second response is not assigned to r
callback_result_First(first, last) == [statusCode |-> first.status, body |-> first.text]

\* "return r.status_code, r.text" and the dict lambda_handler returns
callback_result(first, last) == [statusCode |-> last.status, body |-> last.text]

\* the invocation has made the call op, which returned (ok) or raised, and
\* goes on at pc; log is the history of the calls it has made
Logged(op, ok) == [op |-> op, ok |-> ok]
Goto(i, op, ok, pc) ==
    inv' = [inv EXCEPT ![i].pc = pc, ![i].log = Append(@, Logged(op, ok))]

\* variant: the last record of the event is taken
Start_Last(i, event) ==
    /\ inv[i].pc = "idle"
    /\ inv' = [inv EXCEPT ![i].pc = "get_object", ![i].key = event[Len(event)]]
    /\ UNCHANGED <<store, photos, created, nextId, recv, CDN_DERIV, call>>

\* rec = event['Records'][0]; key = rec['s3']['object']['key']
Start(i, event) ==
    /\ inv[i].pc = "idle"
    /\ inv' = [inv EXCEPT ![i].pc = "get_object", ![i].key = event[1]]
    /\ UNCHANGED <<store, photos, created, nextId, recv, CDN_DERIV, call>>

\* s3.get_object(...)['Body'].read(), which may raise
GetObject(i) ==
    /\ inv[i].pc = "get_object"
    /\ \/ Goto(i, "get_object", TRUE, "process")
       \/ Goto(i, "get_object", FALSE, "failed")
    /\ UNCHANGED <<store, photos, created, nextId, recv, CDN_DERIV, call>>

\* out = process_image_bytes(body)
Process(i) ==
    /\ inv[i].pc = "process"
    /\ IF Out(i).error THEN Goto(i, "process", FALSE, "failed")
       ELSE Goto(i, "process", TRUE, "put_web")
    /\ UNCHANGED <<store, photos, created, nextId, recv, CDN_DERIV, call>>

Put(key, body) == store' = [k \in DOMAIN store \cup {key} |-> IF k = key THEN body ELSE store[k]]

\* variant: a failed write of the web derivative is swallowed
PutWeb_Swallow(i) ==
    /\ inv[i].pc = "put_web"
    /\ \/ Put(key_web_of(inv[i].key), Out(i).web_bytes)
          /\ Goto(i, "put_web", TRUE, "put_thumb")
       \/ UNCHANGED store /\ Goto(i, "put_web", FALSE, "put_thumb")
    /\ UNCHANGED <<photos, created, nextId, recv, CDN_DERIV, call>>

\* first put_object of upload_derivatives
PutWeb(i) ==
    /\ inv[i].pc = "put_web"
    /\ \/ Put(key_web_of(inv[i].key), Out(i).web_bytes)
          /\ Goto(i, "put_web", TRUE, "put_thumb")
       \/ UNCHANGED store /\ Goto(i, "put_web", FALSE, "failed")
    /\ UNCHANGED <<photos, created, nextId, recv, CDN_DERIV, call>>

\* variant: a failed write of the thumbnail deletes the web derivative again
PutThumb_Rollback(i) ==
    /\ inv[i].pc = "put_thumb"
    /\ \/ Put(key_thumb_of(inv[i].key), Out(i).thumb_bytes)
          /\ Goto(i, "put_thumb", TRUE, "post")
       \/ /\ store' = [k \in DOMAIN store \ {key_web_of(inv[i].key)} |-> store[k]]
          /\ Goto(i, "put_thumb", FALSE, "failed")
    /\ UNCHANGED <<photos, created, nextId, recv, CDN_DERIV, call>>

\* second put_object of upload_derivatives
PutThumb(i) ==
    /\ inv[i].pc = "put_thumb"
    /\ \/ Put(key_thumb_of(inv[i].key), Out(i).thumb_bytes)
          /\ Goto(i, "put_thumb", TRUE, "post")
       \/ UNCHANGED store /\ Goto(i, "put_thumb", FALSE, "failed")
    /\ UNCHANGED <<photos, created, nextId, recv, CDN_DERIV, call>>

\* callback_update after its first response r
AfterFirst(i, r) ==
    inv' = [inv EXCEPT
        ![i].resps = Append(@, r),
        ![i].log = Append(@, Logged("post", TRUE)),
        ![i].pc = IF NeedsRetry(r) THEN "retry" ELSE "done",
        ![i].result = IF NeedsRetry(r) THEN @ ELSE callback_result(r, r)]

\* variant: a second response that still fails is retried again
AfterSecond_Again(i, r) ==
    inv' = [inv EXCEPT
        ![i].resps = Append(@, r),
        ![i].log = Append(@, Logged("post", TRUE)),
        ![i].pc = IF NeedsRetry(r) THEN "retry" ELSE "done",
        ![i].result = callback_result(inv[i].resps[1], r)]

\* callback_update and lambda_handler after the second response r
AfterSecond(i, r) ==
    inv' = [inv EXCEPT
        ![i].resps = Append(@, r),
        ![i].log = Append(@, Logged("post", TRUE)),
        ![i].pc = "done",
        ![i].result = callback_result(inv[i].resps[1], r)]

\* requests.post raised: nothing catches it, the invocation ends with the error
Raised(i) ==
    inv' = [inv EXCEPT
        ![i].resps = Append(@, NetworkError),
        ![i].log = Append(@, Logged("post", FALSE)),
        ![i].pc = "failed"]

\* callback_update after the response r of its first or its second post
After(i, second, r) == IF second THEN AfterSecond(i, r) ELSE AfterFirst(i, r)

\* One requests.post of callback_update, the first or the second:
\*   the receiver answers; or something in front of it answers 503;
\*   or the request never arrives and post raises;
\*   or the receiver handles it but the response is lost and post raises.
Attempt(i, second) ==
    LET data == Payload(inv[i].key, Out(i))
        r == api_update_meta(photos, LAMBDA_WEBHOOK_SECRET, data).resp
    IN  \/ ReceiverCall(LAMBDA_WEBHOOK_SECRET, data) /\ After(i, second, r)
        \/ UNCHANGED <<photos, recv>>
           /\ After(i, second, Response(503, "Service Unavailable"))
        \/ UNCHANGED <<photos, recv>> /\ Raised(i)
        \/ ReceiverCall(LAMBDA_WEBHOOK_SECRET, data) /\ Raised(i)

\* first requests.post of callback_update
Post(i) ==
    /\ inv[i].pc = "post"
    /\ Attempt(i, FALSE)
    /\ UNCHANGED <<store, created, nextId, CDN_DERIV, call>>

\* time.sleep(1.5) and the second requests.post
Retry(i) ==
    /\ inv[i].pc = "retry"
    /\ Attempt(i, TRUE)
    /\ UNCHANGED <<store, created, nextId, CDN_DERIV, call>>

LambdaNext(i) ==
    \/ \E event \in Events : Start(i, event)
    \/ GetObject(i)
    \/ Process(i)
    \/ PutWeb(i)
    \/ PutThumb(i)
    \/ Post(i)
    \/ Retry(i)

----------------------------------------------------------------------------
(* Specifications *)

NoResult == [statusCode |-> 0, body |-> "none"]
NoCall == [fn |-> "none", arg |-> None, done |-> FALSE, ret |-> None]

Init ==
    /\ store = [k \in {} |-> None]
    /\ photos = [id \in {} |-> None]
    /\ created = [id \in {} |-> None]
    /\ nextId = 0
    /\ inv = [i \in Invs |-> [pc |-> "idle", key |-> None, log |-> <<>>, resps |-> <<>>,
                              result |-> NoResult]]
    /\ recv = [secret |-> None, payload |-> NoPayload, status |-> 0,
               repeat |-> FALSE, fresh |-> FALSE]
    /\ CDN_DERIV = ""
    /\ call = NoCall

AppNext ==
    \/ \E k \in Keys : api_register(k, REG_GPS)
    \/ \E id \in 1..MaxPhotos : api_delete_photo(id)
    \/ \E id \in 1..MaxPhotos, copied \in BOOLEAN : api_duplicate_photo(id, copied)

\* the pipeline: storage events handled by the worker while the application
\* registers, duplicates and deletes photos
Next ==
    \/ \E i \in Invs : LambdaNext(i)
    \/ AppNext

Spec == Init /\ [][Next]_vars

----------------------------------------------------------------------------
(* The receiver on its own: any client posts any payload with any secret *)

TS_ISO == ConvertDateTime(TS_EMBEDDED)
LAT == <<40, 1>>
LNG == <<-80, 1>>

Secrets == {None, WEBHOOK_SECRET, <<"wrong">>}

\* payloads with and without a key, a timestamp, a complete GPS pair
Payloads ==
    {[s3_key_original |-> k,
      s3_key_web |-> key_web_of(KEY_A),
      s3_key_thumb |-> key_thumb_of(KEY_A),
      taken_at |-> t,
      gps_lat |-> g[1],
      gps_lng |-> g[2],
      width |-> 1600,
      height |-> 1200] :
        k \in {None, KEY_A, KEY_B},
        t \in {None, TS_ISO},
        g \in {<<None, None>>, <<LAT, None>>, <<LAT, LNG>>}}

\* POST /api/photos/update_meta from any client
DirectPost(secret, data) ==
    /\ ReceiverCall(secret, data)
    /\ UNCHANGED <<store, created, nextId, inv, CDN_DERIV, call>>

RecvInit ==
    /\ store = [k \in {} |-> None]
    /\ photos = [id \in {} |-> None]
    /\ created = [id \in {} |-> None]
    /\ nextId = 0
    /\ inv = [i \in Invs |-> [pc |-> "idle", key |-> None, log |-> <<>>, resps |-> <<>>,
                              result |-> NoResult]]
    /\ recv = [secret |-> None, payload |-> NoPayload, status |-> 0,
               repeat |-> FALSE, fresh |-> FALSE]
    /\ CDN_DERIV \in {"", "cdn.example"}
    /\ call = NoCall

RecvNext ==
    \/ AppNext
    \/ \E secret \in Secrets, data \in Payloads : DirectPost(secret, data)

RecvSpec == RecvInit /\ [][RecvNext]_vars

----------------------------------------------------------------------------
(* The worker's functions on their own: one call on any input *)

MaxKeyLen == 4       \* characters in an original key

\* original keys: any string of letters, '.' and '/'
KeyChars == {"a", "b", ".", "/"}
KeyStrings == UNION {[1..n -> KeyChars] : n \in 1..MaxKeyLen}

TS_DIGITIZED ==
    <<"2", "0", "2", "4", ":", "0", "3", ":", "1", "6", " ",
      "0", "9", ":", "0", "0", ":", "0", "1">>
TS_MODIFIED ==
    <<"2", "0", "2", "3", ":", "1", "2", ":", "3", "1", " ",
      "2", "3", ":", "5", "9", ":", "5", "9">>
\* what a camera whose clock was never set writes
TS_BLANK ==
    <<" ", " ", " ", " ", ":", " ", " ", ":", " ", " ", " ",
      " ", " ", ":", " ", " ", ":", " ", " ">>
TS_DATE_ONLY == <<"2", "0", "2", "4", ":", "0", "3", ":", "1", "5">>
TS_PADDED == TS_EMBEDDED \o <<INVALID_BYTE>>

\* a directory's tag: absent, or present with one of the values
TagOptions(tag, values) == {EmptyDict} \cup {tag :> v : v \in values}

ExifDirs ==
    {a @@ b :
        a \in TagOptions(DateTimeOriginal,
                         {<<>>, TS_EMBEDDED, TS_BLANK, TS_PADDED, NOT_TEXT}),
        b \in TagOptions(DateTimeDigitized, {<<>>, TS_DIGITIZED, NOT_TEXT})}
ZerothDirs == TagOptions(DateTime, {<<>>, TS_MODIFIED, TS_DATE_ONLY, NOT_TEXT})

DMS_LAT == << <<40, 1>>, <<26, 1>>, <<463, 10>> >>
DMS_LNG == << <<79, 1>>, <<58, 1>>, <<56, 1>> >>
DMS_ZERO_DEN == << <<40, 1>>, <<26, 0>>, <<0, 0>> >>
DMS_SHORT == << <<40, 1>>, <<26, 1>> >>

GpsDirs ==
    {a @@ b @@ c @@ d :
        a \in TagOptions(GPSLatitudeRef, {<<"N">>, <<"S">>, NOT_TEXT}),
        b \in TagOptions(GPSLatitude, {DMS_LAT, DMS_ZERO_DEN, DMS_SHORT}),
        c \in TagOptions(GPSLongitudeRef, {<<"E">>, <<"W">>}),
        d \in TagOptions(GPSLongitude, {DMS_LNG, DMS_ZERO_DEN})}

\* what piexif.load returns has every directory, possibly empty
ExifDict(exif, zeroth, gps) == ("Exif" :> exif) @@ ("0th" :> zeroth) @@ ("GPS" :> gps)

DateDicts ==
    {EmptyExif} \cup {ExifDict(e, z, EmptyDict) : e \in ExifDirs, z \in ZerothDirs}
GpsDicts ==
    {EmptyExif} \cup {ExifDict(EmptyDict, EmptyDict, g) : g \in GpsDirs}

\* images: a size, and no metadata block, a corrupt one, or one that loads
ImageSizes ==
    {<<4000, 3000>>, <<3000, 4000>>, <<800, 600>>, <<1548, 1548>>,
     <<2976, 1860>>, <<1, 5000>>, <<5000, 1>>, <<1, 1>>}
ImageExifDicts ==
    {ExifDict(e, z, g) :
        e \in TagOptions(DateTimeOriginal, {TS_EMBEDDED, TS_BLANK, NOT_TEXT}),
        z \in TagOptions(Orientation, {6}),
        g \in {EmptyDict, EXIF_FULL.dict["GPS"],
               (GPSLatitude :> DMS_LAT) @@ (GPSLongitude :> DMS_ZERO_DEN)}}
ImageBlocks ==
    {[has_exif |-> FALSE, exif |-> EXIF_NONE],
     [has_exif |-> TRUE, exif |-> [corrupt |-> TRUE, dict |-> EmptyExif]]}
    \cup {[has_exif |-> TRUE, exif |-> [corrupt |-> FALSE, dict |-> d]] : d \in ImageExifDicts}
Images ==
    {IMG_BAD} \cup
    {[decodes |-> TRUE, pixels |-> "A", size |-> sz,
      has_exif |-> b.has_exif, exif |-> b.exif] : sz \in ImageSizes, b \in ImageBlocks}

ResizeArgs == {[size |-> <<w, h>>, max_side |-> m] : w \in Dims, h \in Dims, m \in Sides}

Call(fn, arg) == [fn |-> fn, arg |-> arg, done |-> FALSE, ret |-> None]
Returned(ret) == call' = [call EXCEPT !.done = TRUE, !.ret = ret]

\* upload_derivatives(original_key, web_bytes, thumb_bytes), both writes made
CallUploadDerivatives ==
    /\ call.fn = "upload_derivatives" /\ ~call.done
    /\ LET key_web == key_web_of(call.arg)
           key_thumb == key_thumb_of(call.arg)
           out == process_image_bytes(IMG_PLAIN)
       IN  /\ store' = [k \in DOMAIN store \cup {key_web, key_thumb} |->
                           IF k = key_thumb THEN out.thumb_bytes
                           ELSE IF k = key_web THEN out.web_bytes
                           ELSE store[k]]
           /\ Returned(<<key_web, key_thumb>>)
    /\ UNCHANGED <<photos, created, nextId, inv, recv, CDN_DERIV>>

\* _ratio_resize(img, max_side)
CallRatioResize ==
    /\ call.fn = "_ratio_resize" /\ ~call.done
    /\ Returned(_ratio_resize(call.arg.size, call.arg.max_side))
    /\ UNCHANGED <<store, photos, created, nextId, inv, recv, CDN_DERIV>>

\* process_image_bytes(img_bytes)
CallProcessImageBytes ==
    /\ call.fn = "process_image_bytes" /\ ~call.done
    /\ Returned(process_image_bytes(call.arg))
    /\ UNCHANGED <<store, photos, created, nextId, inv, recv, CDN_DERIV>>

\* _get_datetime(exif_dict)
CallGetDatetime ==
    /\ call.fn = "_get_datetime" /\ ~call.done
    /\ Returned(_get_datetime(call.arg))
    /\ UNCHANGED <<store, photos, created, nextId, inv, recv, CDN_DERIV>>

\* _gps_to_decimal(exif_dict)
CallGpsToDecimal ==
    /\ call.fn = "_gps_to_decimal" /\ ~call.done
    /\ Returned(_gps_to_decimal(call.arg))
    /\ UNCHANGED <<store, photos, created, nextId, inv, recv, CDN_DERIV>>

PureInit ==
    /\ store = [k \in {} |-> None]
    /\ photos = [id \in {} |-> None]
    /\ created = [id \in {} |-> None]
    /\ nextId = 0
    /\ inv = [i \in Invs |-> [pc |-> "idle", key |-> None, log |-> <<>>, resps |-> <<>>,
                              result |-> NoResult]]
    /\ recv = [secret |-> None, payload |-> NoPayload, status |-> 0,
               repeat |-> FALSE, fresh |-> FALSE]
    /\ CDN_DERIV = ""
    /\ call \in {Call("upload_derivatives", k) : k \in KeyStrings}
           \cup {Call("_ratio_resize", a) : a \in ResizeArgs}
           \cup {Call("process_image_bytes", img) : img \in Images}
           \cup {Call("_get_datetime", d) : d \in DateDicts}
           \cup {Call("_gps_to_decimal", d) : d \in GpsDicts}

PureNext ==
    \/ CallUploadDerivatives
    \/ CallRatioResize
    \/ CallProcessImageBytes
    \/ CallGetDatetime
    \/ CallGpsToDecimal

PureSpec == PureInit /\ [][PureNext]_vars

----------------------------------------------------------------------------
(* One invocation of lambda_handler on any event, photos being registered *)

\* the steps of the invocation handling the event call.arg
HandlerStep ==
    \/ Start(1, call.arg)
    \/ GetObject(1)
    \/ Process(1)
    \/ PutWeb(1)
    \/ PutThumb(1)
    \/ Post(1)
    \/ Retry(1)

HandlerInit ==
    /\ store = [k \in {} |-> None]
    /\ photos = [id \in {} |-> None]
    /\ created = [id \in {} |-> None]
    /\ nextId = 0
    /\ inv = [i \in Invs |-> [pc |-> "idle", key |-> None, log |-> <<>>, resps |-> <<>>,
                              result |-> NoResult]]
    /\ recv = [secret |-> None, payload |-> NoPayload, status |-> 0,
               repeat |-> FALSE, fresh |-> FALSE]
    /\ CDN_DERIV = ""
    /\ call \in {Call("lambda_handler", event) : event \in Events}

HandlerNext ==
    \/ HandlerStep
    \/ \E k \in Keys : api_register(k, REG_GPS)

\* Every call the handler makes (get_object, put_object, requests.post with
\* timeout=10) returns or raises, and the runtime runs the handler to its
\* end: a step that can be taken is taken.
HandlerSpec == HandlerInit /\ [][HandlerNext]_vars /\ WF_vars(HandlerStep)

----------------------------------------------------------------------------
(* Properties *)

Last(seq) == seq[Len(seq)]
Failed(r) == r.status >= 400 \/ r = NetworkError

\* a call of the receiver was made in this step
CallMade == recv' # recv /\ recv'.fresh

\* C1: when lambda_handler returns, its statusCode and body are those of the
\* last callback attempt made; after two failed attempts they are the second's.
C1_ResultIsLastAttempt ==
    \A i \in Invs :
        inv[i].pc = "done" =>
            /\ inv[i].resps # <<>>
            /\ inv[i].result.statusCode = Last(inv[i].resps).status
            /\ inv[i].result.body = Last(inv[i].resps).text

C1_Witness ==
    \E i \in Invs :
        /\ inv[i].pc = "done"
        /\ Len(inv[i].resps) = 2
        /\ inv[i].resps[1].status >= 400
        /\ inv[i].resps[2].status >= 400
        /\ inv[i].resps[1] # inv[i].resps[2]
        /\ inv[i].result.statusCode = inv[i].resps[2].status

\* C2: an invocation sends at most 2 POST attempts, and a second one only
\* after a first that failed, never after a first that succeeded.
C2_AtMostTwoAttempts ==
    \A i \in Invs :
        /\ Len(inv[i].resps) <= 2
        /\ Len(inv[i].resps) = 2 => Failed(inv[i].resps[1])
        /\ inv[i].pc = "retry" => Len(inv[i].resps) = 1 /\ Failed(inv[i].resps[1])

C2_Witness ==
    \E i, j \in Invs :
        /\ Len(inv[i].resps) = 2
        /\ inv[j].pc = "done" /\ Len(inv[j].resps) = 1 /\ inv[j].resps[1].status = 200

\* C3: after a first attempt that failed with a network-level exception the
\* invocation makes one more attempt (it is waiting to retry or has retried).
C3_RetryAfterNetworkError ==
    \A i \in Invs :
        (Len(inv[i].resps) >= 1 /\ inv[i].resps[1] = NetworkError) =>
            inv[i].pc = "retry" \/ Len(inv[i].resps) = 2

\* C4: once both derivatives are published (the callback step is reached), the
\* invocation never ends with an exception, whatever the callback's outcome.
C4_CallbackNeverRaises ==
    \A i \in Invs : inv[i].pc = "failed" => inv[i].resps = <<>>

\* C5: a registered Photo whose derivatives are published ends up with the
\* web derivative URL as src in every interleaving of the invocations with
\* the registration: once every invocation has returned (none raised, so the
\* event is not redelivered and no further callback will be sent), the Photo
\* has been switched, given a receiver that was reachable (no attempt met a
\* network error or a 503) and a key only this Photo has.
Published(k) == {key_web_of(k), key_thumb_of(k)} \subseteq DOMAIN store
ReceiverUnreachable ==
    \E i \in Invs : \E n \in 1..Len(inv[i].resps) : inv[i].resps[n].status \in {0, 503}
C5_EventuallySwitched ==
    \A id \in DOMAIN photos :
        (/\ \A i \in Invs : inv[i].pc = "done"
         /\ Published(photos[id].s3_key)
         /\ ~ReceiverUnreachable
         /\ PhotosWithKey(photos, photos[id].s3_key) = {id}
         /\ DOMAIN created = DOMAIN photos)
            => photos[id].src = DerivativeUrl(key_web_of(photos[id].s3_key))

\* C6: a Photo's src is the value it was created with until a callback for
\* its s3_key is answered 200, and is the web derivative's URL right after;
\* no other step of the pipeline and no failed callback changes it.
Answered200(k) ==
    CallMade /\ recv'.status = 200 /\ recv'.payload.s3_key_original = k
C6_SrcStep ==
    /\ \A id \in DOMAIN photos \cap DOMAIN photos' :
           photos'[id].src # photos[id].src => Answered200(photos[id].s3_key)
    /\ \A id \in DOMAIN photos' :
           Answered200(photos'[id].s3_key) =>
               photos'[id].src = DerivativeUrl(key_web_of(photos'[id].s3_key))
C6_SrcSwitchesOnlyOn200 ==
    /\ [](\A id \in DOMAIN photos :
            photos[id].src \in {created[id].src,
                                DerivativeUrl(key_web_of(photos[id].s3_key))})
    /\ [][C6_SrcStep]_vars

C6_Witness ==
    \E i \in Invs : \E id \in DOMAIN photos :
        /\ inv[i].pc = "done"
        /\ Len(inv[i].resps) = 2
        /\ inv[i].resps[1].status = 404
        /\ inv[i].resps[2].status = 200
        /\ photos[id].s3_key = inv[i].key
        /\ created[id].src = OriginalUrl(inv[i].key)
        /\ photos[id].src = DerivativeUrl(key_web_of(inv[i].key))

\* C7: posting the same payload a second time with the valid secret leaves
\* the photos table as the first call left it and is answered the same status.
C7_Step ==
    (CallMade /\ recv'.repeat) => photos' = photos /\ recv'.status = recv.status
C7_ReceiverIdempotent == [][C7_Step]_vars

C7_Witness ==
    /\ recv.repeat
    /\ recv.status = 200
    /\ recv.payload.gps_lat # None /\ recv.payload.gps_lng # None
    /\ \E id \in DOMAIN photos : photos[id] # created[id]

\* C8: however many invocations process the same original, in any
\* interleaving, every derivative object in the store and every Photo a
\* callback updated are what a single successful invocation leaves.
ExpectedRow(row) ==
    LET out == process_image_bytes(OriginalBucket[row.s3_key])
    IN  IF out.error THEN row ELSE
        [row EXCEPT
            !.src = DerivativeUrl(key_web_of(row.s3_key)),
            !.gps = IF out.gps_lat # None /\ out.gps_lng # None
                    THEN <<out.gps_lat, ",", out.gps_lng>> ELSE @,
            !.date = IF Truthy(out.taken_at) THEN SubSeq(out.taken_at, 1, 10) ELSE @]
ExpectedObject(k) ==
    {process_image_bytes(OriginalBucket[o]).web_bytes :
        o \in {o \in Keys : key_web_of(o) = k}}
    \cup {process_image_bytes(OriginalBucket[o]).thumb_bytes :
        o \in {o \in Keys : key_thumb_of(o) = k}}
C8_RedeliveryConverges ==
    /\ \A id \in DOMAIN photos :
           photos[id] = created[id] \/ photos[id] = ExpectedRow(created[id])
    /\ \A k \in DOMAIN store : store[k] \in ExpectedObject(k)
    /\ \A i \in Invs :
           inv[i].pc \in {"post", "retry", "done"} => Published(inv[i].key)

C8_Witness ==
    \E id \in DOMAIN photos :
        /\ \A i \in Invs :
               /\ inv[i].pc = "done"
               /\ inv[i].key = photos[id].s3_key
               /\ inv[i].result.statusCode = 200
        /\ photos[id] # created[id]
        /\ photos[id] = ExpectedRow(created[id])

\* C9: a call whose secret header is absent or differs from the configured
\* secret is answered 401 and changes no Photo, whatever the payload.
C9_Step ==
    (CallMade /\ recv'.secret # WEBHOOK_SECRET) =>
        recv'.status = 401 /\ photos' = photos
C9_AuthorizationGate == [][C9_Step]_vars

C9_Witness ==
    /\ recv.fresh
    /\ recv.secret = None
    /\ recv.status = 401
    /\ \E id \in DOMAIN photos : photos[id].s3_key = recv.payload.s3_key_original

\* C10: an authorized callback naming an s3_key_original no Photo has is
\* answered 404, changes no Photo and creates none.
C10_Step ==
    (/\ CallMade
     /\ recv'.secret = WEBHOOK_SECRET
     /\ recv'.payload.s3_key_original \notin {None, <<>>}
     /\ \A id \in DOMAIN photos : photos[id].s3_key # recv'.payload.s3_key_original)
        => recv'.status = 404 /\ photos' = photos
C10_NotFound == [][C10_Step]_vars

C10_Witness ==
    /\ recv.fresh
    /\ recv.status = 404
    /\ \E id \in DOMAIN created \ DOMAIN photos :
           created[id].s3_key = recv.payload.s3_key_original

\* C11: an authorized callback whose s3_key_original matches a Photo is
\* answered 200; that Photo's src becomes the URL of s3_key_web (on the CDN
\* domain when one is configured, on the bucket's host otherwise), its gps
\* becomes "{lat},{lng}" only when both coordinates are present, its date the
\* first 10 characters of taken_at only when taken_at is present; every other
\* field of that Photo and every other Photo are unchanged.
C11_Updated(row, data) ==
    [row EXCEPT
        !.src = IF CDN_DERIV # "" THEN Url(<<CDN_DERIV, call>>, data.s3_key_web)
                ELSE Url(BucketHost(DERIV_BUCKET), data.s3_key_web),
        !.gps = IF data.gps_lat # None /\ data.gps_lng # None
                THEN <<data.gps_lat, ",", data.gps_lng>> ELSE row.gps,
        !.date = IF data.taken_at # None THEN SubSeq(data.taken_at, 1, 10)
                 ELSE row.date]
C11_Step ==
    (/\ CallMade
     /\ recv'.secret = WEBHOOK_SECRET
     /\ \E id \in DOMAIN photos : photos[id].s3_key = recv'.payload.s3_key_original)
        => /\ recv'.status = 200
           /\ DOMAIN photos' = DOMAIN photos
           /\ \E id \in DOMAIN photos :
                  /\ photos[id].s3_key = recv'.payload.s3_key_original
                  /\ photos'[id] = C11_Updated(photos[id], recv'.payload)
                  /\ \A other \in DOMAIN photos \ {id} : photos'[other] = photos[other]
C11_MatchedIsUpdated == [][C11_Step]_vars

\* the same step when exactly one Photo has the key
C11_StepSingle ==
    Cardinality(PhotosWithKey(photos, recv'.payload.s3_key_original)) = 1 => C11_Step
C11_SingleMatchIsUpdated == [][C11_StepSingle]_vars

\* the calls an invocation has made, by kind
Calls(i, op) == {n \in 1..Len(inv[i].log) : inv[i].log[n].op = op}
Succeeded(i, op) == {n \in Calls(i, op) : inv[i].log[n].ok}
Puts(i) == Calls(i, "put_web") \cup Calls(i, "put_thumb")

\* C12: when the original's bytes cannot be decoded, the invocation ends
\* with an error once it has tried to process them, and it has written no
\* derivative object and sent no callback.
C12_DecodeFailureFatal ==
    \A i \in Invs :
        (Calls(i, "process") # {} /\ ~OriginalBucket[inv[i].key].decodes) =>
            /\ inv[i].pc = "failed"
            /\ Puts(i) = {}
            /\ Calls(i, "post") = {}
            /\ inv[i].resps = <<>>

C12_Witness ==
    \E i, j \in Invs :
        /\ inv[i].pc = "failed"
        /\ inv[i].log = <<Logged("get_object", TRUE), Logged("process", FALSE)>>
        /\ ~OriginalBucket[inv[i].key].decodes
        /\ inv[j].pc = "done"
        /\ DOMAIN store = {key_web_of(inv[j].key), key_thumb_of(inv[j].key)}

\* C13: when a put_object of a derivative fails, the invocation ends with
\* an error and has sent no callback (it has changed no Photo); when it is the
\* thumbnail's write that failed, the web object written before it is still
\* in the store.
C13_UploadFailureFatal ==
    \A i \in Invs :
        /\ (Puts(i) \ (Succeeded(i, "put_web") \cup Succeeded(i, "put_thumb")) # {}) =>
               /\ inv[i].pc = "failed"
               /\ Calls(i, "post") = {}
               /\ inv[i].resps = <<>>
        /\ (Calls(i, "put_thumb") # {} /\ Succeeded(i, "put_thumb") = {}) =>
               /\ key_web_of(inv[i].key) \in DOMAIN store
               /\ store[key_web_of(inv[i].key)] = Out(i).web_bytes

C13_Witness ==
    \E i \in Invs :
        /\ inv[i].pc = "failed"
        /\ inv[i].log[Len(inv[i].log)] = Logged("put_thumb", FALSE)
        /\ DOMAIN store = {key_web_of(inv[i].key)}
        /\ \E id \in DOMAIN photos :
               photos[id].s3_key = inv[i].key /\ photos[id] = created[id]

\* C20: the calls of one invocation are made in the order get_object,
\* process, put_object (web), put_object (thumbnail), POST: a POST is made
\* only after both put_object calls of the invocation succeeded, a put_object
\* only after processing succeeded, the thumbnail's after the web's, and
\* processing only after the download succeeded.
Before(i, op, n) == \E m \in Succeeded(i, op) : m < n
C20_StepOrder ==
    \A i \in Invs : \A n \in 1..Len(inv[i].log) :
        LET op == inv[i].log[n].op
        IN  /\ op = "post" => Before(i, "put_web", n) /\ Before(i, "put_thumb", n)
            /\ op \in {"put_web", "put_thumb"} => Before(i, "process", n)
            /\ op = "put_thumb" => Before(i, "put_web", n)
            /\ op = "process" => Before(i, "get_object", n)
            /\ op # "post" => Calls(i, op) = {n}

C20_Witness ==
    \E i \in Invs :
        /\ inv[i].pc = "done"
        /\ [n \in 1..Len(inv[i].log) |-> inv[i].log[n].op]
               = <<"get_object", "process", "put_web", "put_thumb", "post", "post">>

\* a call of fn has returned (or raised)
Done(fn) == call.fn = fn /\ call.done

\* C14: for every original key, upload_derivatives writes to and returns
\* exactly base + "_web.webp" and base + "_thumb.webp", where base is the key
\* without the final extension of its file name (the part after the last
\* '/'); a key whose file name has no '.' is its own base, whatever its
\* directories are called.
FileNameStart(key) ==
    IF PositionsOf(key, "/") = {} THEN 1
    ELSE 1 + CHOOSE i \in PositionsOf(key, "/") : \A j \in PositionsOf(key, "/") : j <= i
ExtensionDots(key) == {i \in DotsOf(key) : i >= FileNameStart(key)}
BaseOf(key) ==
    IF ExtensionDots(key) = {} THEN key
    ELSE SubSeq(key, 1, (CHOOSE i \in ExtensionDots(key) :
                            \A j \in ExtensionDots(key) : j <= i) - 1)
C14_DerivativeKeys ==
    Done("upload_derivatives") =>
        /\ call.ret = <<BaseOf(call.arg) \o WEB_SUFFIX, BaseOf(call.arg) \o THUMB_SUFFIX>>
        /\ DOMAIN store = {BaseOf(call.arg) \o WEB_SUFFIX, BaseOf(call.arg) \o THUMB_SUFFIX}

\* C15: for every image that decodes, whatever its width and height >= 1,
\* process_image_bytes returns both derivatives, each at least 1 x 1; it
\* does not fail after decoding.
C15_BothDerivatives ==
    (Done("process_image_bytes") /\ call.arg.decodes) =>
        /\ ~call.ret.error
        /\ \A d \in {call.ret.web_bytes, call.ret.thumb_bytes} :
               d.size[1] >= 1 /\ d.size[2] >= 1

\* C16: the size _ratio_resize returns has no edge above max_side, and when
\* the image was scaled its shorter edge differs from
\* shorter * max_side / longer by less than 1.
C16_ResizeBound ==
    (Done("_ratio_resize") /\ ~call.ret.raised) =>
        LET w == call.arg.size[1]
            h == call.arg.size[2]
            m == call.arg.max_side
            longer == Max(w, h)
            shorter == Min(w, h)
            out == call.ret.value
            diff == Min(out[1], out[2]) * longer - shorter * m
        IN  /\ Max(out[1], out[2]) <= m
            /\ longer <= m => out = call.arg.size
            /\ longer > m => diff < longer /\ 0 - diff < longer

\* C17: whatever the metadata block (none, corrupt, tags missing or
\* malformed), the extraction raises nothing and the derivatives are the ones
\* of the same image without metadata; a field that cannot be parsed is None
\* (all three without a block); taken_at does not depend on the GPS
\* directory, nor the GPS pair on the date tags.
NoBlock(img) == ~img.has_exif \/ img.exif.corrupt
Stripped(img) == [img EXCEPT !.has_exif = FALSE, !.exif = EXIF_NONE]
WithGps(img, gps) == [img EXCEPT !.exif.dict = [@ EXCEPT !["GPS"] = gps]]
WithoutDates(img) ==
    [img EXCEPT !.exif.dict = [@ EXCEPT !["Exif"] = EmptyDict, !["0th"] = EmptyDict]]
Readable(val) == Truthy(val) /\ val # NOT_TEXT
NoReadableDate(img) ==
    NoBlock(img) \/
    \A n \in 1..Len(DateTimeLookups) :
        ~Readable(Get(img.exif.dict[DateTimeLookups[n][1]], DateTimeLookups[n][2]))
GpsUnparseable(img) ==
    NoBlock(img) \/
    LET gps == img.exif.dict["GPS"]
    IN  \/ GPSLatitude \notin DOMAIN gps \/ GPSLongitude \notin DOMAIN gps
        \/ ~DmsOk(gps[GPSLatitude]) \/ ~DmsOk(gps[GPSLongitude])
        \/ Get(gps, GPSLatitudeRef) = NOT_TEXT \/ Get(gps, GPSLongitudeRef) = NOT_TEXT
C17_ExtractionNeverFails ==
    (Done("process_image_bytes") /\ call.arg.decodes) =>
        LET img == call.arg
            out == call.ret
            plain == process_image_bytes(Stripped(img))
        IN  /\ out.error = plain.error
            /\ out.error => out.stage \in {"web", "thumb"}
            /\ ~out.error =>
                /\ out.web_bytes = plain.web_bytes
                /\ out.thumb_bytes = plain.thumb_bytes
                /\ NoReadableDate(img) => out.taken_at = None
                /\ GpsUnparseable(img) => out.gps_lat = None /\ out.gps_lng = None
                /\ ~NoBlock(img) =>
                    /\ \A g \in {EmptyDict, GPSLatitude :> DMS_SHORT, EXIF_FULL.dict["GPS"]} :
                           process_image_bytes(WithGps(img, g)).taken_at = out.taken_at
                    /\ process_image_bytes(WithoutDates(img)).gps_lat = out.gps_lat
                    /\ process_image_bytes(WithoutDates(img)).gps_lng = out.gps_lng

C17_Witness ==
    /\ Done("process_image_bytes")
    /\ ~call.ret.error
    /\ ~NoBlock(call.arg)
    /\ GpsUnparseable(call.arg) /\ DOMAIN call.arg.exif.dict["GPS"] # {}
    /\ call.ret.gps_lat = None
    /\ call.ret.taken_at = TS_ISO

\* C18: _gps_to_decimal returns (None, None) or two numbers for every GPS
\* block, complete, partial or malformed, never one coordinate with the
\* other None; so does the pair process_image_bytes hands to the payload.
IsNumber(x) == x # None /\ Len(x) = 2 /\ x[2] # 0
C18_GpsPairOrNothing ==
    /\ Done("_gps_to_decimal") =>
           /\ ~call.ret.raised
           /\ \/ call.ret.value = <<None, None>>
              \/ IsNumber(call.ret.value[1]) /\ IsNumber(call.ret.value[2])
    /\ (Done("process_image_bytes") /\ ~call.ret.error) =>
           (call.ret.gps_lat = None <=> call.ret.gps_lng = None)

C18_Witness ==
    /\ Done("_gps_to_decimal")
    /\ "GPS" \in DOMAIN call.arg
    /\ {GPSLatitudeRef, GPSLatitude, GPSLongitude} \subseteq DOMAIN call.arg["GPS"]
    /\ call.arg["GPS"][GPSLatitudeRef] = <<"N">>
    /\ call.arg["GPS"][GPSLatitude] = DMS_LAT
    /\ call.arg["GPS"][GPSLongitude] = DMS_ZERO_DEN
    /\ call.ret.value = <<None, None>>

\* C19: the taken_at the extractor produces is None or a string of the form
\* YYYY-MM-DDTHH:MM:SSZ (20 characters, digits in the date and time
\* positions), whatever the embedded value.
Digits == {"0", "1", "2", "3", "4", "5", "6", "7", "8", "9"}
IsIsoTimestamp(t) ==
    /\ Len(t) = 20
    /\ \A i \in {1, 2, 3, 4, 6, 7, 9, 10, 12, 13, 15, 16, 18, 19} : t[i] \in Digits
    /\ t[5] = "-" /\ t[8] = "-" /\ t[11] = "T"
    /\ t[14] = ":" /\ t[17] = ":" /\ t[20] = "Z"
C19_TakenAtShape ==
    /\ Done("_get_datetime") =>
           call.ret.value = None \/ IsIsoTimestamp(call.ret.value)
    /\ (Done("process_image_bytes") /\ ~call.ret.error) =>
           call.ret.taken_at = None \/ IsIsoTimestamp(call.ret.taken_at)

\* C21: an invocation downloads and processes one original, the one named
\* by the first record of its event, however many records the event has: it
\* makes one get_object and one process_image_bytes call, writes only that
\* original's derivatives and posts only that original's key.
C21_OneObjectPerInvocation ==
    inv[1].pc # "idle" =>
        /\ inv[1].key = call.arg[1]
        /\ Cardinality(Calls(1, "get_object")) <= 1
        /\ Cardinality(Calls(1, "process")) <= 1
        /\ DOMAIN store \subseteq {key_web_of(call.arg[1]), key_thumb_of(call.arg[1])}
        /\ recv.fresh => recv.payload = Payload(call.arg[1], Out(1))

C21_Witness ==
    /\ Len(call.arg) = 2
    /\ call.arg[2] # call.arg[1]
    /\ OriginalBucket[call.arg[2]].decodes
    /\ inv[1].pc = "done"
    /\ inv[1].result.statusCode = 200
    /\ Cardinality(Calls(1, "get_object")) = 1
    /\ DOMAIN store = {key_web_of(call.arg[1]), key_thumb_of(call.arg[1])}
    /\ \E id \in DOMAIN photos : photos[id].s3_key = call.arg[2] /\ photos[id] = created[id]

\* C22: in every interleaving of invocations, registrations and callbacks, a
\* Photo whose src is a derivative URL (one the receiver set, or a copy of it)
\* has its web derivative and its thumbnail in the derivatives store.
IsDerivativeSrc(src) == src.host = BucketHost(DERIV_BUCKET)
C22_SrcPointsAtWrittenObjects ==
    \A id \in DOMAIN photos :
        IsDerivativeSrc(photos[id].src) =>
            /\ photos[id].src = DerivativeUrl(key_web_of(photos[id].s3_key))
            /\ photos[id].src.path \in DOMAIN store
            /\ key_thumb_of(photos[id].s3_key) \in DOMAIN store

C22_Witness ==
    \E id \in DOMAIN photos : \E i \in Invs :
        /\ IsDerivativeSrc(photos[id].src)
        /\ ~IsDerivativeSrc(created[id].src)
        /\ inv[i].key = photos[id].s3_key /\ inv[i].pc = "done"
        /\ \E j \in Invs : inv[j].key = photos[id].s3_key /\ inv[j].pc = "put_thumb"

\* C23: in every state of the photos table the application's operations
\* reach (register, duplicate, delete), an authorized callback with a
\* non-empty s3_key_original is answered 200 or 404, also when two or more
\* Photos share the key.
C23_Step ==
    (/\ CallMade
     /\ recv'.secret = WEBHOOK_SECRET
     /\ Truthy(recv'.payload.s3_key_original))
        => recv'.status \in {200, 404}
C23_AnsweredOkOrNotFound == [][C23_Step]_vars

\* C24: the derivative keys of an original are the derivative keys of no other
\* original: the keys upload_derivatives writes for one key are never
\* written for a different key (so "a.a" and "a.b" do not share them).
C24_KeysInjective ==
    Done("upload_derivatives") =>
        \A other \in KeyStrings \ {call.arg} :
            {key_web_of(other), key_thumb_of(other)} \cap DOMAIN store = {}

\* C25: when the GPS block has both coordinate triples well formed and a
\* reference tag is missing, _gps_to_decimal returns (None, None).
C25_MissingRefGivesNothing ==
    (/\ Done("_gps_to_decimal")
     /\ "GPS" \in DOMAIN call.arg
     /\ {GPSLatitude, GPSLongitude} \subseteq DOMAIN call.arg["GPS"]
     /\ DmsOk(call.arg["GPS"][GPSLatitude])
     /\ DmsOk(call.arg["GPS"][GPSLongitude])
     /\ ~({GPSLatitudeRef, GPSLongitudeRef} \subseteq DOMAIN call.arg["GPS"]))
        => call.ret.value = <<None, None>>

\* C26: an image whose Orientation tag asks for a quarter turn (5 to 8) is
\* turned before it is resized: the derivative sizes are those of the image
\* with width and height exchanged (4000 x 3000 tagged 6 gives a web
\* derivative of 1200 x 1600).
Turned(img) ==
    /\ img.decodes /\ img.has_exif /\ ~img.exif.corrupt
    /\ Orientation \in DOMAIN img.exif.dict["0th"]
    /\ img.exif.dict["0th"][Orientation] \in 5..8
C26_OrientationApplied ==
    (Done("process_image_bytes") /\ Turned(call.arg) /\ ~call.ret.error) =>
        /\ call.ret.web_size = NewSize(<<call.arg.size[2], call.arg.size[1]>>, MAX_WEB)
        /\ call.ret.thumb_size = NewSize(<<call.arg.size[2], call.arg.size[1]>>, MAX_THUMB)

\* C27: for every size whose longer edge exceeds max_side, _ratio_resize
\* returns a size whose longer edge is max_side and whose shorter edge is
\* shorter * max_side / longer rounded to the nearest integer (at most one
\* half away from it), not truncated.
C27_ShorterEdgeRounded ==
    (/\ Done("_ratio_resize")
     /\ Max(call.arg.size[1], call.arg.size[2]) > call.arg.max_side) =>
        LET longer == Max(call.arg.size[1], call.arg.size[2])
            shorter == Min(call.arg.size[1], call.arg.size[2])
            out == call.ret.value
            diff == Min(out[1], out[2]) * longer - shorter * call.arg.max_side
        IN  /\ ~call.ret.raised
            /\ Max(out[1], out[2]) = call.arg.max_side
            /\ 2 * diff <= longer /\ 0 - 2 * diff <= longer

\* C28: _get_datetime returns the conversion of DateTimeOriginal when it
\* can be read and is not empty, otherwise of DateTimeDigitized (CreateDate),
\* otherwise of the generic DateTime, otherwise None: a lower tag never wins
\* over a readable higher one, and an absent, empty or unreadable tag is
\* passed over. (piexif.load files DateTimeOriginal and DateTimeDigitized
\* under "Exif" and DateTime under "0th".)
TagValue(exif_dict, ifd, tag) ==
    IF ifd \in DOMAIN exif_dict /\ tag \in DOMAIN exif_dict[ifd]
    THEN exif_dict[ifd][tag] ELSE None
ByPriority(exif_dict) ==
    << TagValue(exif_dict, "Exif", DateTimeOriginal),
       TagValue(exif_dict, "Exif", DateTimeDigitized),
       TagValue(exif_dict, "0th", DateTime) >>
Winner(exif_dict) ==
    {n \in 1..3 : /\ Readable(ByPriority(exif_dict)[n])
                  /\ \A m \in 1..(n - 1) : ~Readable(ByPriority(exif_dict)[m])}
C28_TimestampPriority ==
    Done("_get_datetime") =>
        /\ ~call.ret.raised
        /\ Winner(call.arg) = {} => call.ret.value = None
        /\ \A n \in Winner(call.arg) :
               call.ret.value = ConvertDateTime(Decode(ByPriority(call.arg)[n]))

C28_Witness ==
    /\ Done("_get_datetime")
    /\ ByPriority(call.arg) = <<NOT_TEXT, <<>>, TS_MODIFIED>>
    /\ call.ret.value = ConvertDateTime(TS_MODIFIED)

\* C29: an embedded value of the form "YYYY:MM:DD HH:MM:SS" is converted to
\* the same digits with the two ':' of the date replaced by '-', the space by
\* 'T', and 'Z' appended; the ':' of the time are kept and no digit changes
\* ("2024:03:15 10:30:00" gives "2024-03-15T10:30:00Z").
IsExifTimestamp(v) ==
    /\ Len(v) = 19
    /\ \A i \in {1, 2, 3, 4, 6, 7, 9, 10, 12, 13, 15, 16, 18, 19} : v[i] \in Digits
    /\ v[5] = ":" /\ v[8] = ":" /\ v[11] = " " /\ v[14] = ":" /\ v[17] = ":"
IsoOf(v) ==
    [i \in 1..20 |-> IF i \in {5, 8} THEN "-" ELSE IF i = 11 THEN "T"
                     ELSE IF i = 20 THEN "Z" ELSE v[i]]
C29_TimestampConversion ==
    Done("_get_datetime") =>
        \A n \in Winner(call.arg) :
            IsExifTimestamp(Decode(ByPriority(call.arg)[n])) =>
                call.ret.value = IsoOf(Decode(ByPriority(call.arg)[n]))

C29_Witness ==
    /\ Done("_get_datetime")
    /\ TagValue(call.arg, "Exif", DateTimeOriginal) = TS_EMBEDDED
    /\ call.ret.value = <<"2", "0", "2", "4", "-", "0", "3", "-", "1", "5", "T",
                          "1", "0", ":", "3", "0", ":", "0", "0", "Z">>

\* C30: given that every call the handler makes returns or raises, an
\* invocation of lambda_handler ends, by returning its status and body or by
\* failing with an error, and up to there it has made at most one get_object
\* call, two put_object calls and two requests.post calls: nothing in it
\* loops or retries without bound.
C30_Ended == inv[1].pc \in {"done", "failed"}
C30_Bounded ==
    /\ Cardinality(Calls(1, "get_object")) <= 1
    /\ Cardinality(Puts(1)) <= 2
    /\ Cardinality(Calls(1, "post")) <= 2
C30_TerminatesBounded == <>C30_Ended /\ []C30_Bounded

C30_Witness ==
    /\ inv[1].pc = "done"
    /\ Cardinality(Calls(1, "get_object")) = 1
    /\ Cardinality(Puts(1)) = 2
    /\ Cardinality(Calls(1, "post")) = 2
    /\ NeedsRetry(inv[1].resps[2])

====
